---- MODULE Spec2Model ----
(***************************************************************************)
(* Model of the Wayback Machine MCP server (src/server.py).                *)
(*                                                                         *)
(* A tool call is a coroutine: call_tool dispatches to a handler, the      *)
(* handler reads its arguments, awaits one to three client.get(...) calls  *)
(* and returns one CallToolResult.  Every await of client.get is a step    *)
(* of the model; the upstream's answer is the step's input.                *)
(*                                                                         *)
(* Text is a sequence of one-character strings, so that padding, slicing,  *)
(* splitting and formatting are computed and not assumed.                  *)
(***************************************************************************)
EXTENDS Integers, Sequences, FiniteSets, TLC

VARIABLES pc, name, arguments, requests, responses, result, fn, fn_in, fn_out

vars == <<pc, name, arguments, requests, responses, result, fn, fn_in, fn_out>>

callVars == <<pc, name, arguments, requests, responses, result>>
fnVars == <<fn, fn_in, fn_out>>

(***************************************************************************)
(* Text helpers                                                            *)
(***************************************************************************)
DigitChars == {"0", "1", "2", "3", "4", "5", "6", "7", "8", "9"}

DigitVal(c) ==
    CASE c = "0" -> 0 [] c = "1" -> 1 [] c = "2" -> 2 [] c = "3" -> 3
      [] c = "4" -> 4 [] c = "5" -> 5 [] c = "6" -> 6 [] c = "7" -> 7
      [] c = "8" -> 8 [] c = "9" -> 9

DigitChar(n) ==
    CASE n = 0 -> "0" [] n = 1 -> "1" [] n = 2 -> "2" [] n = 3 -> "3"
      [] n = 4 -> "4" [] n = 5 -> "5" [] n = 6 -> "6" [] n = 7 -> "7"
      [] n = 8 -> "8" [] n = 9 -> "9"

Min(a, b) == IF a <= b THEN a ELSE b

\* str.ljust(width, fill): pads on the right, never shortens
Ljust(s, width, fill) ==
    IF Len(s) >= width THEN s
    ELSE s \o [i \in 1..(width - Len(s)) |-> fill]

\* s[:n]
Prefix(s, n) == SubSeq(s, 1, Min(n, Len(s)))

(***************************************************************************)
(* _format_timestamp                                                       *)
(***************************************************************************)
TS_WIDTH == 14

Num2(s, i) == 10 * DigitVal(s[i]) + DigitVal(s[i + 1])
Num4(s, i) == 100 * Num2(s, i) + Num2(s, i + 2)

IsLeap(y) == (y % 4 = 0 /\ y % 100 # 0) \/ y % 400 = 0

DaysIn(y, m) ==
    IF m = 2 THEN (IF IsLeap(y) THEN 29 ELSE 28)
    ELSE IF m \in {4, 6, 9, 11} THEN 30 ELSE 31

\* datetime.strptime(s, "%Y%m%d%H%M%S") on a text of digits: every field
\* takes its full width, the whole text must be consumed, and the fields
\* must make a datetime; ok = FALSE stands for ValueError.
Strptime(s) ==
    IF Len(s) # TS_WIDTH \/ \E i \in 1..Len(s) : s[i] \notin DigitChars
    THEN [ok |-> FALSE, Y |-> 0, m |-> 0, d |-> 0, H |-> 0, M |-> 0, S |-> 0]
    ELSE LET Y == Num4(s, 1)
             m == Num2(s, 5)
             d == Num2(s, 7)
             H == Num2(s, 9)
             M == Num2(s, 11)
             S == Num2(s, 13)
         IN [ok |-> /\ Y \in 1..9999
                    /\ m \in 1..12
                    /\ d >= 1
                    /\ d <= DaysIn(Y, m)
                    /\ H <= 23
                    /\ M <= 59
                    /\ S <= 59,
             Y |-> Y, m |-> m, d |-> d, H |-> H, M |-> M, S |-> S]

Two(n) == <<DigitChar(n \div 10), DigitChar(n % 10)>>
Four(n) == Two(n \div 100) \o Two(n % 100)

\* dt.strftime("%Y-%m-%d %H:%M:%S UTC")
Strftime(dt) ==
    Four(dt.Y) \o <<"-">> \o Two(dt.m) \o <<"-">> \o Two(dt.d) \o <<" ">>
      \o Two(dt.H) \o <<":">> \o Two(dt.M) \o <<":">> \o Two(dt.S)
      \o <<" ", "U", "T", "C">>

\* The try body rebinds ts to the padded text before parsing, so the
\* except branch returns the padded text.
_format_timestamp(ts) ==
    LET padded == Ljust(ts, TS_WIDTH, "0")
        dt == Strptime(Prefix(padded, TS_WIDTH))
    IN IF dt.ok THEN Strftime(dt) ELSE padded

(***************************************************************************)
(* Constants of the program                                                *)
(***************************************************************************)
WAYBACK_AVAILABILITY_API == "http://archive.org/wayback/available"
\* the constant of line 27, under the name lines 380-390 use for it
WAYBACK_CDX_API == "https://web.archive.org/cdx/search/cdx"
WAYBACK_BASE_URL ==
    <<"h", "t", "t", "p", "s", ":", "/", "/", "w", "e", "b", ".", "a", "r",
      "c", "h", "i", "v", "e", ".", "o", "r", "g", "/", "w", "e", "b">>

DEFAULT_LIMIT == 10
LIMIT_CAP == 100
MAX_CHARS == 50000

ToolNames == {"get_latest_snapshot", "get_snapshot_at_date", "search_snapshots",
              "get_snapshot_content", "check_url_availability"}

\* Python's None
None == [py |-> "None"]

(***************************************************************************)
(* What a handler does next: raise, return a dict, or await a request.     *)
(***************************************************************************)
Raises(msg) == [t |-> "raise", msg |-> msg]
Returns(value) == [t |-> "return", value |-> value]
Sends(request) == [t |-> "send", request |-> request]

KeyError(key) == <<"KeyError", key>>
ValueError == <<"ValueError">>
JSONDecodeError == <<"JSONDecodeError">>
IndexError == <<"IndexError">>
RequestError == <<"RequestError">>
HTTPStatusError(status) == <<"HTTPStatusError", ToString(status)>>

\* dict.get(key, default)
Get(d, key, default) == IF key \in DOMAIN d THEN d[key] ELSE default

ApiRequest(api, params) == [api |-> api, get |-> <<>>, params |-> params]
PageRequest(url) == [api |-> "snapshot", get |-> url, params |-> <<>>]

\* response.raise_for_status(): a status outside 200..299 raises
IsSuccess(status) == status \in 200..299

\* Checked without the raise_for_status() line
Checked_unchecked(resp) ==
    IF resp.kind = "error" THEN Raises(RequestError)
    ELSE IF resp.body.json = "invalid" THEN Raises(JSONDecodeError)
    ELSE Returns(resp.body.value)

\* client.get(...); response.raise_for_status(); response.json() or .text:
\* what the three lines leave the handler with
Checked(resp) ==
    IF resp.kind = "error" THEN Raises(RequestError)
    ELSE IF ~IsSuccess(resp.status_code) THEN Raises(HTTPStatusError(resp.status_code))
    ELSE IF resp.body.json = "invalid" THEN Raises(JSONDecodeError)
    ELSE Returns(resp.body.value)

(***************************************************************************)
(* get_latest_snapshot, get_snapshot_at_date                               *)
(***************************************************************************)
get_latest_snapshot_request(args) ==
    IF "url" \notin DOMAIN args THEN Raises(KeyError("url"))
    ELSE Sends(ApiRequest(WAYBACK_AVAILABILITY_API, "url" :> args["url"]))

\* NotAvailable without the test of closest's "available" flag
NotAvailable_flagless(data) ==
    LET snapshots == Get(data, "archived_snapshots", <<>>)
    IN \/ "closest" \notin DOMAIN snapshots
       \/ snapshots["closest"] = <<>>

\* closest is falsy when it is missing (None) or an empty dict
NotAvailable(data) ==
    LET snapshots == Get(data, "archived_snapshots", <<>>)
    IN \/ "closest" \notin DOMAIN snapshots
       \/ snapshots["closest"] = <<>>
       \/ ~Get(snapshots["closest"], "available", FALSE)

get_latest_snapshot_result(args, resp) ==
    LET got == Checked(resp) IN
    IF got.t = "raise" THEN got
    ELSE LET data == got.value
             url == args["url"]
         IN IF NotAvailable(data)
            THEN Returns("available" :> FALSE @@ "url" :> url
                         @@ "message" :> "No snapshots found for this URL")
            ELSE LET closest == data["archived_snapshots"]["closest"] IN
                 IF "timestamp" \notin DOMAIN closest THEN Raises(KeyError("timestamp"))
                 ELSE IF "url" \notin DOMAIN closest THEN Raises(KeyError("url"))
                 ELSE Returns("available" :> TRUE
                              @@ "original_url" :> url
                              @@ "snapshot_url" :> closest["url"]
                              @@ "timestamp" :> closest["timestamp"]
                              @@ "formatted_time" :> _format_timestamp(closest["timestamp"])
                              @@ "status" :> Get(closest, "status", <<"u", "n", "k", "n", "o", "w", "n">>))

\* get_snapshot_at_date reading the timestamp with a default instead of args["timestamp"]
get_snapshot_at_date_request_lenient(args) ==
    IF "url" \notin DOMAIN args THEN Raises(KeyError("url"))
    ELSE Sends(ApiRequest(WAYBACK_AVAILABILITY_API,
                          "url" :> args["url"] @@ "timestamp" :> Get(args, "timestamp", "")))

get_snapshot_at_date_request(args) ==
    IF "url" \notin DOMAIN args THEN Raises(KeyError("url"))
    ELSE IF "timestamp" \notin DOMAIN args THEN Raises(KeyError("timestamp"))
    ELSE Sends(ApiRequest(WAYBACK_AVAILABILITY_API,
                          "url" :> args["url"] @@ "timestamp" :> args["timestamp"]))

get_snapshot_at_date_result(args, resp) ==
    LET got == Checked(resp) IN
    IF got.t = "raise" THEN got
    ELSE LET data == got.value
             url == args["url"]
             timestamp == args["timestamp"]
         IN IF NotAvailable(data)
            THEN Returns("available" :> FALSE @@ "url" :> url
                         @@ "requested_timestamp" :> timestamp
                         @@ "message" :> "No snapshots found near this date")
            ELSE LET closest == data["archived_snapshots"]["closest"] IN
                 IF "timestamp" \notin DOMAIN closest THEN Raises(KeyError("timestamp"))
                 ELSE IF "url" \notin DOMAIN closest THEN Raises(KeyError("url"))
                 ELSE Returns("available" :> TRUE
                              @@ "original_url" :> url
                              @@ "requested_timestamp" :> timestamp
                              @@ "snapshot_url" :> closest["url"]
                              @@ "actual_timestamp" :> closest["timestamp"]
                              @@ "actual_formatted_time" :> _format_timestamp(closest["timestamp"])
                              @@ "status" :> Get(closest, "status", <<"u", "n", "k", "n", "o", "w", "n">>))

(***************************************************************************)
(* search_snapshots                                                        *)
(***************************************************************************)
\* int(x): an integer converts to itself, anything else raises
PyInt(x) == IF x.t = "int" THEN [ok |-> TRUE, v |-> x.v] ELSE [ok |-> FALSE, v |-> 0]
IntArg(n) == [t |-> "int", v |-> n]
NotAnInt == [t |-> "str", v |-> 0]

\* truth value of an optional text argument: None and "" are falsy
Truthy(args, key) == key \in DOMAIN args /\ args[key] # ""

\* the limit passed on without the cap
LimitSent_uncapped(n) == n

\* min(int(args.get("limit", 10)), 100)
LimitSent(n) == Min(n, LIMIT_CAP)

search_snapshots_request(args) ==
    IF "url" \notin DOMAIN args THEN Raises(KeyError("url"))
    ELSE LET conv == PyInt(Get(args, "limit", IntArg(DEFAULT_LIMIT))) IN
         IF ~conv.ok THEN Raises(ValueError)
         ELSE Sends(ApiRequest(WAYBACK_CDX_API,
                "url" :> args["url"]
                @@ "output" :> "json"
                @@ "fl" :> "timestamp,original,statuscode,mimetype,length"
                @@ "limit" :> LimitSent(conv.v)
                @@ (IF Truthy(args, "from_date") THEN "from" :> args["from_date"] ELSE <<>>)
                @@ (IF Truthy(args, "to_date") THEN "to" :> args["to_date"] ELSE <<>>)
                @@ (IF Truthy(args, "status_code")
                    THEN "filter" :> <<"statuscode:", args["status_code"]>> ELSE <<>>)))

\* dict(zip(headers, row)): pairs stop at the shorter of the two
Zip(headers, row) ==
    [k \in {headers[i] : i \in 1..Min(Len(headers), Len(row))} |->
        row[CHOOSE i \in 1..Min(Len(headers), Len(row)) :
              /\ headers[i] = k
              /\ \A j \in (i + 1)..Min(Len(headers), Len(row)) : headers[j] # k]]

SnapshotRecord(headers, row) ==
    LET entry == Zip(headers, row)
        ts == Get(entry, "timestamp", <<>>)
    IN "timestamp" :> ts
       @@ "formatted_time" :> _format_timestamp(ts)
       @@ "snapshot_url" :> WAYBACK_BASE_URL \o <<"/">> \o ts \o <<"/">>
                               \o Get(entry, "original", <<>>)
       @@ "original_url" :> Get(entry, "original", <<>>)
       @@ "status_code" :> Get(entry, "statuscode", <<>>)
       @@ "mime_type" :> Get(entry, "mimetype", <<>>)
       @@ "size_bytes" :> Get(entry, "length", <<>>)

\* the rows taken from one row too far (raw[2:])
DataRows_skipping(raw) == Tail(Tail(raw))

\* rows = raw[1:]
DataRows(raw) == Tail(raw)

search_snapshots_result(args, resp) ==
    LET got == Checked(resp) IN
    IF got.t = "raise" THEN got
    ELSE LET raw == got.value IN
         IF Len(raw) < 2
         THEN Returns("url" :> args["url"] @@ "total_found" :> 0 @@ "snapshots" :> <<>>)
         ELSE LET headers == raw[1]
                  rows == DataRows(raw)
                  snapshots == [i \in 1..Len(rows) |-> SnapshotRecord(headers, rows[i])]
              IN Returns("url" :> args["url"]
                         @@ "total_found" :> Len(snapshots)
                         @@ "snapshots" :> snapshots)

(***************************************************************************)
(* get_snapshot_content                                                    *)
(***************************************************************************)
\* index of the first occurrence of sub in s, 0 when there is none
Find(s, sub) ==
    LET hits == {i \in 1..(Len(s) - Len(sub) + 1) : SubSeq(s, i, i + Len(sub) - 1) = sub}
    IN IF hits = {} THEN 0 ELSE CHOOSE i \in hits : \A j \in hits : i <= j

WEB == <<"/", "w", "e", "b", "/">>
ID_ == <<"i", "d", "_">>

\* the id_ flag put after the slash that ends the timestamp
RawUrl_after_slash(snapshot_url) ==
    LET i == Find(snapshot_url, WEB) IN
    IF i = 0 THEN snapshot_url
    ELSE LET head == SubSeq(snapshot_url, 1, i - 1)
             rest == SubSeq(snapshot_url, i + Len(WEB), Len(snapshot_url))
             j == Find(rest, <<"/">>)
         IN IF j = 0 THEN snapshot_url
            ELSE head \o WEB \o SubSeq(rest, 1, j - 1) \o <<"/">> \o ID_
                   \o SubSeq(rest, j + 1, Len(rest))

\* snapshot_url.split("/web/", 1), then parts[1].split("/", 1)
RawUrl(snapshot_url) ==
    LET i == Find(snapshot_url, WEB) IN
    IF i = 0 THEN snapshot_url
    ELSE LET head == SubSeq(snapshot_url, 1, i - 1)
             rest == SubSeq(snapshot_url, i + Len(WEB), Len(snapshot_url))
             j == Find(rest, <<"/">>)
         IN IF j = 0 THEN snapshot_url
            ELSE head \o WEB \o SubSeq(rest, 1, j - 1) \o ID_ \o <<"/">>
                   \o SubSeq(rest, j + 1, Len(rest))

FetchUrl(snapshot_url, raw) == IF raw THEN RawUrl(snapshot_url) ELSE snapshot_url

get_snapshot_content_request(args) ==
    IF "snapshot_url" \notin DOMAIN args THEN Raises(KeyError("snapshot_url"))
    ELSE Sends(PageRequest(FetchUrl(args["snapshot_url"], Get(args, "raw", FALSE))))

\* A body is the first `chars` characters of the page `of`
TextLen(text) == text.chars
TextPrefix(text, n) == [chars |-> Min(text.chars, n), of |-> text.of]

\* the truncation test with >= in place of >
IsTruncated_inclusive(content) == TextLen(content) >= MAX_CHARS

\* truncated = len(content) > MAX_CHARS
IsTruncated(content) == TextLen(content) > MAX_CHARS

get_snapshot_content_result(fetched, resp) ==
    LET got == Checked(resp) IN
    IF got.t = "raise" THEN got
    ELSE LET truncated == IsTruncated(got.value)
             content == IF truncated THEN TextPrefix(got.value, MAX_CHARS) ELSE got.value
         IN Returns("snapshot_url" :> fetched
                    @@ "content_length" :> TextLen(content)
                    @@ "truncated" :> truncated
                    @@ "content" :> content)

(***************************************************************************)
(* check_url_availability                                                  *)
(***************************************************************************)
CountRequest(url) ==
    ApiRequest(WAYBACK_CDX_API,
               "url" :> url @@ "output" :> "json" @@ "fl" :> "timestamp"
               @@ "limit" :> 1 @@ "showNumPages" :> "true")
\* the first-snapshot request sent with the latest-snapshot parameters
FirstRequest_latest(url) ==
    ApiRequest(WAYBACK_CDX_API,
               "url" :> url @@ "output" :> "json" @@ "fl" :> "timestamp,statuscode"
               @@ "limit" :> 1 @@ "fastLatest" :> "true")

FirstRequest(url) ==
    ApiRequest(WAYBACK_CDX_API,
               "url" :> url @@ "output" :> "json" @@ "fl" :> "timestamp,statuscode"
               @@ "limit" :> 1)
LastRequest(url) ==
    ApiRequest(WAYBACK_CDX_API,
               "url" :> url @@ "output" :> "json" @@ "fl" :> "timestamp,statuscode"
               @@ "limit" :> 1 @@ "fastLatest" :> "true")

check_url_availability_request(args) ==
    IF "url" \notin DOMAIN args THEN Raises(KeyError("url"))
    ELSE Sends(CountRequest(args["url"]))

\* DataOf reading the body of every 2xx response
DataOf_any_success(resp) ==
    IF ~IsSuccess(resp.status_code) THEN Returns(<<>>)
    ELSE IF resp.body.json = "invalid" THEN Raises(JSONDecodeError)
    ELSE Returns(resp.body.value)

\* response.json() if response.status_code == 200 else []
DataOf(resp) ==
    IF resp.status_code # 200 THEN Returns(<<>>)
    ELSE IF resp.body.json = "invalid" THEN Raises(JSONDecodeError)
    ELSE Returns(resp.body.value)

\* the snapshot built from data[1][0], None when there is no data row
SnapshotOf(data) ==
    IF Len(data) > 1
    THEN (IF Len(data[2]) = 0 THEN Raises(IndexError)
          ELSE Returns("timestamp" :> data[2][1]
                       @@ "formatted_time" :> _format_timestamp(data[2][1])))
    ELSE Returns(None)

\* earlier: the responses already received by this call; resp: the new one
check_url_availability_result(args, earlier, resp) ==
    IF resp.kind = "error" THEN Raises(RequestError)
    ELSE IF Len(earlier) = 0 THEN Sends(FirstRequest(args["url"]))
    ELSE IF Len(earlier) = 1 THEN Sends(LastRequest(args["url"]))
    ELSE LET first_data == DataOf(earlier[2])
             last_data == DataOf(resp)
         IN IF first_data.t = "raise" THEN first_data
            ELSE IF last_data.t = "raise" THEN last_data
            ELSE LET first_snapshot == SnapshotOf(first_data.value)
                     last_snapshot == SnapshotOf(last_data.value)
                 IN IF first_snapshot.t = "raise" THEN first_snapshot
                    ELSE IF last_snapshot.t = "raise" THEN last_snapshot
                    ELSE Returns("url" :> args["url"]
                                 @@ "is_archived" :> (first_snapshot.value # None)
                                 @@ "first_snapshot" :> first_snapshot.value
                                 @@ "latest_snapshot" :> last_snapshot.value
                                 @@ "wayback_url" :> <<"https://web.archive.org/web/*/", args["url"]>>)

(***************************************************************************)
(* Inputs: arguments of a call and answers of the upstream                 *)
(***************************************************************************)
LimitSlack == 1
BodySlack == 1
MaxRows == 2

TS1 == <<"2", "0", "2", "3", "0", "1", "0", "1", "1", "2", "0", "0", "0", "0">>
TS2 == <<"2", "0", "2", "3">>
ORIGINAL == <<"h", "t", "t", "p", "s", ":", "/", "/", "e", "x", "a", "m", "p", "l",
              "e", ".", "c", "o", "m">>
\* https://web.archive.org/web/20230101120000/https://example.com
ExampleUrl == WAYBACK_BASE_URL \o <<"/">> \o TS1 \o <<"/">> \o ORIGINAL
\* a Wayback URL with nothing after the timestamp, and a URL of another site
BareUrl == WAYBACK_BASE_URL \o <<"/">> \o TS1
OtherUrl == ORIGINAL \o <<"/", "w", "e", "b">>

Urls == {"example.com"}
SnapshotUrls == {ExampleUrl, BareUrl, OtherUrl}
LimitInts ==
    ((0 - LimitSlack)..LimitSlack) \cup {DEFAULT_LIMIT}
      \cup ((LIMIT_CAP - LimitSlack)..(LIMIT_CAP + LimitSlack)) \cup {5 * LIMIT_CAP}

\* a key is absent or has one of the values
Opt(key, values) == {<<>>} \cup {key :> v : v \in values}

ArgumentsOf(n) ==
    CASE n = "get_latest_snapshot" -> Opt("url", Urls)
      [] n = "get_snapshot_at_date" ->
            {a @@ b : a \in Opt("url", Urls), b \in Opt("timestamp", {"20230101"})}
      [] n = "search_snapshots" ->
            {a @@ b @@ c @@ d @@ e :
                a \in Opt("url", Urls),
                b \in Opt("limit", {IntArg(k) : k \in LimitInts} \cup {NotAnInt}),
                c \in Opt("from_date", {"", "2020"}),
                d \in Opt("to_date", {"2021"}),
                e \in Opt("status_code", {"200"})}
      [] n = "get_snapshot_content" ->
            {a @@ b : a \in Opt("snapshot_url", SnapshotUrls), b \in Opt("raw", BOOLEAN)}
      [] n = "check_url_availability" -> Opt("url", Urls)
      [] OTHER -> Opt("url", Urls)

Names == ToolNames \cup {"delete_snapshot"}

Statuses == {200, 204, 404, 503}

Json(v) == [json |-> "ok", value |-> v]
Invalid == [json |-> "invalid", value |-> <<>>]

\* client.get raises (kind "error") or gives a response with a status and a body
ResponsesWith(bodies) ==
    {[kind |-> "error", status_code |-> 0, body |-> Invalid]}
      \cup {[kind |-> "http", status_code |-> s, body |-> b] : s \in Statuses, b \in bodies}

Closests ==
    {a @@ b @@ c @@ d :
        a \in Opt("available", BOOLEAN),
        b \in Opt("url", {ExampleUrl}),
        c \in Opt("timestamp", {TS1, TS2}),
        d \in Opt("status", {<<"2", "0", "0">>})}

AvailabilityBodies ==
    {Invalid, Json(<<>>), Json("archived_snapshots" :> <<>>)}
      \cup {Json("archived_snapshots" :> ("closest" :> c)) : c \in Closests}

SeqsUpTo(S, n) == UNION {[1..k -> S] : k \in 0..n}

CDX_HEADER == <<"timestamp", "original", "statuscode", "mimetype", "length">>
SearchRows ==
    {<<>>, <<TS2>>, <<TS1, ORIGINAL, <<"2", "0", "0">>>>,
     <<TS1, ORIGINAL, <<"4", "0", "4">>, <<"t", "e", "x", "t">>, <<"9">>>>}
SearchBodies ==
    {Invalid, Json(<<>>)}
      \cup {Json(<<h>> \o rows) :
              h \in {CDX_HEADER, <<"timestamp", "original">>},
              rows \in SeqsUpTo(SearchRows, MaxRows)}

CHECK_HEADER == <<"timestamp", "statuscode">>
CheckBodies ==
    {Invalid, Json(<<>>), Json(<<CHECK_HEADER>>),
     Json(<<CHECK_HEADER, <<TS1, <<"2", "0", "0">>>>>>),
     Json(<<CHECK_HEADER, <<TS2, <<"3", "0", "1">>>>, <<TS1, <<"2", "0", "0">>>>>>),
     Json(<<CHECK_HEADER, <<>>>>)}

BodyLengths ==
    (0..BodySlack) \cup ((MAX_CHARS - BodySlack)..(MAX_CHARS + BodySlack))
      \cup {2 * MAX_CHARS}
PageBodies == {[json |-> "text", value |-> [chars |-> n, of |-> "page"]] : n \in BodyLengths}

ResponsesOf(n) ==
    CASE n \in {"get_latest_snapshot", "get_snapshot_at_date"} -> ResponsesWith(AvailabilityBodies)
      [] n = "search_snapshots" -> ResponsesWith(SearchBodies)
      [] n = "get_snapshot_content" -> ResponsesWith(PageBodies)
      [] n = "check_url_availability" -> ResponsesWith(CheckBodies)

(***************************************************************************)
(* call_tool and the steps of a call                                       *)
(***************************************************************************)
NoResult == [kind |-> "none"]

UnknownTool == [t |-> "unknown"]

\* the CallToolResult call_tool hands back: the handler's, "Unknown tool",
\* or the one its except clause builds from the exception
ResultOf(n, outcome) ==
    IF outcome.t = "raise" THEN [isError |-> TRUE, text |-> <<"Error: ">> \o outcome.msg]
    ELSE IF outcome.t = "unknown" THEN [isError |-> TRUE, text |-> <<"Unknown tool: ", n>>]
    ELSE [isError |-> FALSE, json |-> outcome.value]

Dispatch(n, args) ==
    CASE n = "get_latest_snapshot" -> get_latest_snapshot_request(args)
      [] n = "get_snapshot_at_date" -> get_snapshot_at_date_request(args)
      [] n = "search_snapshots" -> search_snapshots_request(args)
      [] n = "get_snapshot_content" -> get_snapshot_content_request(args)
      [] n = "check_url_availability" -> check_url_availability_request(args)
      [] OTHER -> UnknownTool

\* the call goes on to its next await, or ends with its result
Proceed(n, outcome) ==
    IF outcome.t = "send"
    THEN /\ requests' = Append(requests, outcome.request)
         /\ pc' = "await"
         /\ result' = result
    ELSE /\ requests' = requests
         /\ pc' = "done"
         /\ result' = ResultOf(n, outcome)

call_tool(n, args) ==
    /\ pc = "idle"
    /\ name' = n
    /\ arguments' = args
    /\ responses' = <<>>
    /\ Proceed(n, Dispatch(n, args))
    /\ UNCHANGED fnVars

get_latest_snapshot(resp) ==
    /\ pc = "await"
    /\ name = "get_latest_snapshot"
    /\ responses' = Append(responses, resp)
    /\ Proceed(name, get_latest_snapshot_result(arguments, resp))
    /\ UNCHANGED <<name, arguments>>
    /\ UNCHANGED fnVars

get_snapshot_at_date(resp) ==
    /\ pc = "await"
    /\ name = "get_snapshot_at_date"
    /\ responses' = Append(responses, resp)
    /\ Proceed(name, get_snapshot_at_date_result(arguments, resp))
    /\ UNCHANGED <<name, arguments>>
    /\ UNCHANGED fnVars

search_snapshots(resp) ==
    /\ pc = "await"
    /\ name = "search_snapshots"
    /\ responses' = Append(responses, resp)
    /\ Proceed(name, search_snapshots_result(arguments, resp))
    /\ UNCHANGED <<name, arguments>>
    /\ UNCHANGED fnVars

get_snapshot_content(resp) ==
    /\ pc = "await"
    /\ name = "get_snapshot_content"
    /\ responses' = Append(responses, resp)
    /\ Proceed(name, get_snapshot_content_result(requests[1].get, resp))
    /\ UNCHANGED <<name, arguments>>
    /\ UNCHANGED fnVars

check_url_availability(resp) ==
    /\ pc = "await"
    /\ name = "check_url_availability"
    /\ responses' = Append(responses, resp)
    /\ Proceed(name, check_url_availability_result(arguments, responses, resp))
    /\ UNCHANGED <<name, arguments>>
    /\ UNCHANGED fnVars

\* the host takes the result; the next call starts from nothing
Return ==
    /\ pc = "done"
    /\ pc' = "idle"
    /\ name' = "none"
    /\ arguments' = <<>>
    /\ requests' = <<>>
    /\ responses' = <<>>
    /\ result' = NoResult
    /\ UNCHANGED fnVars

(***************************************************************************)
(* Inputs of the timestamp check: the prefixes of every combination of    *)
(* the field values below, boundary and out-of-range values included.      *)
(***************************************************************************)
MaxTsLen == 14

\* Years are 1000 or later, or 0000 (which strptime rejects): how %Y renders
\* the years 1 to 999 is left to the C library.
YearTexts == {<<"2", "0", "2", "3">>, <<"2", "0", "2", "4">>,
              <<"1", "9", "0", "0">>, <<"0", "0", "0", "0">>}
MonthTexts == {<<"0", "0">>, <<"0", "1">>, <<"0", "2">>, <<"1", "2">>, <<"1", "3">>}
DayTexts == {<<"0", "0">>, <<"0", "1">>, <<"2", "9">>, <<"3", "1">>, <<"3", "2">>}
HourTexts == {<<"0", "0">>, <<"1", "2">>, <<"2", "3">>, <<"2", "4">>}
MinuteTexts == {<<"0", "0">>, <<"5", "9">>, <<"6", "0">>}
SecondTexts == {<<"0", "0">>, <<"0", "7">>, <<"5", "9">>, <<"6", "0">>}

FullTimestamps ==
    {y \o m \o d \o h \o mi \o s \o <<"0">> :
        y \in YearTexts, m \in MonthTexts, d \in DayTexts,
        h \in HourTexts, mi \in MinuteTexts, s \in SecondTexts}

TsInputs == {Prefix(t, n) : t \in FullTimestamps, n \in 1..MaxTsLen}

NoOutput == <<"<none>">>

InitCall ==
    /\ pc = "idle"
    /\ name = "none"
    /\ arguments = <<>>
    /\ requests = <<>>
    /\ responses = <<>>
    /\ result = NoResult

InitFmt ==
    /\ InitCall
    /\ fn = "_format_timestamp"
    /\ fn_in \in TsInputs
    /\ fn_out = NoOutput

FormatTimestamp ==
    /\ fn = "_format_timestamp"
    /\ fn_out = NoOutput
    /\ fn_out' = _format_timestamp(fn_in)
    /\ UNCHANGED <<fn, fn_in>>
    /\ UNCHANGED callVars

NextFmt == FormatTimestamp

SpecFmt == InitFmt /\ [][NextFmt]_vars

(***************************************************************************)
(* Inputs of the URL check: every text made of at most MaxPieces pieces,   *)
(* with raw true, false or absent.                                         *)
(***************************************************************************)
MaxPieces == 4

Pieces == {WEB, <<"/">>, <<"1">>, <<"w", "e", "b">>, <<"a">>}

RECURSIVE Concat(_)
Concat(ps) == IF ps = <<>> THEN <<>> ELSE Head(ps) \o Concat(Tail(ps))

UrlInputs == {Concat(ps) : ps \in SeqsUpTo(Pieces, MaxPieces)} \cup SnapshotUrls

InitUrl ==
    /\ InitCall
    /\ fn = "get_snapshot_content"
    /\ fn_in \in {a @@ b : a \in {"snapshot_url" :> u : u \in UrlInputs},
                           b \in Opt("raw", BOOLEAN)}
    /\ fn_out = NoOutput

\* the part of get_snapshot_content up to client.get: fn_out is the URL fetched
FetchSnapshot ==
    /\ fn = "get_snapshot_content"
    /\ fn_out = NoOutput
    /\ fn_out' = get_snapshot_content_request(fn_in).request.get
    /\ UNCHANGED <<fn, fn_in>>
    /\ UNCHANGED callVars

NextUrl == FetchSnapshot

SpecUrl == InitUrl /\ [][NextUrl]_vars

Init ==
    /\ InitCall
    /\ fn = "none"
    /\ fn_in = <<>>
    /\ fn_out = NoOutput

Next ==
    \/ \E n \in Names : \E args \in ArgumentsOf(n) : call_tool(n, args)
    \/ \E resp \in ResponsesOf("get_latest_snapshot") : get_latest_snapshot(resp)
    \/ \E resp \in ResponsesOf("get_snapshot_at_date") : get_snapshot_at_date(resp)
    \/ \E resp \in ResponsesOf("search_snapshots") : search_snapshots(resp)
    \/ \E resp \in ResponsesOf("get_snapshot_content") : get_snapshot_content(resp)
    \/ \E resp \in ResponsesOf("check_url_availability") : check_url_availability(resp)
    \/ Return

Spec == Init /\ [][Next]_vars

(***************************************************************************)
(* Properties                                                              *)
(***************************************************************************)
Done == pc = "done"

\* a non-2xx status or a transport failure
Failed(resp) == resp.kind = "error" \/ resp.status_code \notin 200..299
AnyFailed == \E i \in 1..Len(responses) : Failed(responses[i])
ErrorFlagged == result # NoResult /\ result.isError
NormalResult == result # NoResult /\ ~result.isError

\* C1 (as claimed): for each of the five tools, a call one of whose upstream
\* requests got a non-2xx status or failed in transport ends with an
\* error-flagged result.
C1_AsClaimed == (Done /\ name \in ToolNames /\ AnyFailed) => ErrorFlagged

\* C1 (amended): get_latest_snapshot, get_snapshot_at_date, search_snapshots
\* and get_snapshot_content end with an error-flagged result carrying
\* "Error: <message>" whenever their request got a non-2xx status or failed in
\* transport.  check_url_availability ends with an error-flagged result
\* whenever one of its requests failed in transport, but it reads a status
\* other than 200 as an empty answer: when its three requests were answered
\* and neither the first-snapshot nor the latest-snapshot answer has status
\* 200, it returns a normal result with is_archived false.
C1_Amended ==
    (Done /\ name \in ToolNames) =>
        /\ (name # "check_url_availability" /\ AnyFailed) =>
              /\ ErrorFlagged
              /\ result.text \in {<<"Error: ">> \o RequestError}
                    \cup {<<"Error: ">> \o HTTPStatusError(st) : st \in Statuses}
        /\ (name = "check_url_availability"
              /\ \E i \in 1..Len(responses) : responses[i].kind = "error") => ErrorFlagged
        /\ (name = "check_url_availability" /\ Len(responses) = 3
              /\ \A i \in 1..3 : responses[i].kind = "http"
              /\ responses[2].status_code # 200 /\ responses[3].status_code # 200) =>
              /\ NormalResult
              /\ result.json["is_archived"] = FALSE

C1_Witness ==
    /\ Done
    /\ name = "search_snapshots"
    /\ Len(responses) = 1
    /\ responses[1].kind = "http"
    /\ responses[1].status_code = 503
    /\ responses[1].body.json = "ok"
    /\ ErrorFlagged

\* the first-snapshot answer of a check_url_availability call has status 200
\* and a non-empty data row after the header row
FirstHasRow ==
    /\ Len(responses) >= 2
    /\ responses[2].kind = "http"
    /\ responses[2].status_code = 200
    /\ responses[2].body.json = "ok"
    /\ Len(responses[2].body.value) > 1
    /\ Len(responses[2].body.value[2]) > 0

ReportsArchived == NormalResult /\ result.json["is_archived"] = TRUE

\* C2 (as claimed): check_url_availability reports is_archived = true iff the
\* first-snapshot call returned a data row, whatever the count call and the
\* latest-snapshot call did.
C2_AsClaimed ==
    (Done /\ name = "check_url_availability" /\ "url" \in DOMAIN arguments) =>
        (ReportsArchived <=> FirstHasRow)

\* C2 (amended): whenever check_url_availability returns a normal result, it
\* reports is_archived = true iff the first-snapshot answer has status 200 and
\* a row after the header row, whatever the statuses and bodies of the count
\* and latest-snapshot answers; a call in which the first-snapshot answer has
\* such a row but the result is error-flagged is one whose latest-snapshot
\* request failed in transport, or whose latest-snapshot answer has status 200
\* and is unparsable or has an empty data row.
C2_Amended ==
    (Done /\ name = "check_url_availability" /\ "url" \in DOMAIN arguments) =>
        /\ NormalResult =>
              (result.json["is_archived"] <=>
                 /\ responses[2].status_code = 200
                 /\ Len(responses[2].body.value) > 1)
        /\ (FirstHasRow /\ ErrorFlagged) =>
              \/ responses[3].kind = "error"
              \/ /\ responses[3].status_code = 200
                 /\ \/ responses[3].body.json = "invalid"
                    \/ /\ Len(responses[3].body.value) > 1
                       /\ Len(responses[3].body.value[2]) = 0

C2_Witness ==
    /\ Done
    /\ name = "check_url_availability"
    /\ FirstHasRow
    /\ responses[1].status_code = 503
    /\ responses[3].status_code = 404
    /\ ReportsArchived

SearchRequested == name = "search_snapshots" /\ Len(requests) >= 1

\* C3 (as claimed): the limit search_snapshots sends upstream lies in 1..100
\* for every integer limit argument, and is 10 when the argument is absent.
C3_AsClaimed ==
    SearchRequested =>
        /\ requests[1].params["limit"] \in 1..100
        /\ "limit" \notin DOMAIN arguments => requests[1].params["limit"] = 10

\* C3 (amended): the limit search_snapshots sends upstream is the smaller of
\* the limit argument and 100: it never exceeds 100, a requested value of 100
\* or less (0 and negative values included) is sent as it is, and 10 is sent
\* when the argument is absent.
C3_Amended ==
    SearchRequested =>
        /\ requests[1].params["limit"] <= 100
        /\ "limit" \in DOMAIN arguments =>
              IF arguments["limit"].v <= 100
              THEN requests[1].params["limit"] = arguments["limit"].v
              ELSE requests[1].params["limit"] = 100
        /\ "limit" \notin DOMAIN arguments => requests[1].params["limit"] = 10

C3_Witness ==
    /\ SearchRequested
    /\ "limit" \in DOMAIN arguments
    /\ arguments["limit"].v = 500
    /\ requests[1].params["limit"] = 100

\* out is the 'YYYY-MM-DD HH:MM:SS UTC' rendering of the 14 digits of padded
IsRenderingOf(out, padded) ==
    /\ Len(out) = 23
    /\ Len(padded) = 14
    /\ SubSeq(out, 1, 4) = SubSeq(padded, 1, 4)
    /\ out[5] = "-"
    /\ SubSeq(out, 6, 7) = SubSeq(padded, 5, 6)
    /\ out[8] = "-"
    /\ SubSeq(out, 9, 10) = SubSeq(padded, 7, 8)
    /\ out[11] = " "
    /\ SubSeq(out, 12, 13) = SubSeq(padded, 9, 10)
    /\ out[14] = ":"
    /\ SubSeq(out, 15, 16) = SubSeq(padded, 11, 12)
    /\ out[17] = ":"
    /\ SubSeq(out, 18, 19) = SubSeq(padded, 13, 14)
    /\ SubSeq(out, 20, 23) = <<" ", "U", "T", "C">>

\* C4 (as claimed): for a timestamp of 1 to 14 digits _format_timestamp
\* returns the rendering of the timestamp padded with '0' to 14 characters,
\* or else the original input unchanged (not the padded text).
C4_AsClaimed ==
    (fn = "_format_timestamp" /\ fn_out # NoOutput /\ Len(fn_in) \in 1..14) =>
        \/ IsRenderingOf(fn_out, Ljust(fn_in, 14, "0"))
        \/ fn_out = fn_in

\* a call that never reaches a request: unknown tool name, a required key
\* missing, or a limit that int() rejects
Unrequestable(n, args) ==
    \/ n \notin ToolNames
    \/ n \in {"get_latest_snapshot", "search_snapshots", "check_url_availability"}
         /\ "url" \notin DOMAIN args
    \/ n = "get_snapshot_at_date" /\ {"url", "timestamp"} \ DOMAIN args # {}
    \/ n = "get_snapshot_content" /\ "snapshot_url" \notin DOMAIN args
    \/ n = "search_snapshots" /\ "limit" \in DOMAIN args /\ args["limit"].t # "int"

Distinct(seq) == \A i, j \in 1..Len(seq) : i # j => seq[i] # seq[j]

\* the requests of a check_url_availability call, in the order of the code
CheckOrder(url) == <<CountRequest(url), FirstRequest(url), LastRequest(url)>>

\* one request in flight at a time, one result, nothing after the result
Sequential ==
    /\ pc = "await" => Len(requests) = Len(responses) + 1 /\ result = NoResult
    /\ pc = "done" => Len(requests) = Len(responses) /\ result # NoResult
    /\ pc = "idle" => requests = <<>> /\ result = NoResult
    /\ Distinct(requests)
    /\ (name = "check_url_availability" /\ requests # <<>>) =>
          requests = SubSeq(CheckOrder(arguments["url"]), 1, Len(requests))

OneResult ==
    /\ result # NoResult => \/ UNCHANGED <<requests, responses, result>>
                            \/ pc' = "idle" /\ result' = NoResult
    /\ requests' # requests =>
          \/ pc' = "idle"
          \/ result' = NoResult /\ requests' = Append(requests, requests'[Len(requests')])

SplitsAt(s, a, b) ==
    /\ a + Len(WEB) + b + 1 <= Len(s)
    /\ SubSeq(s, a + 1, a + Len(WEB)) = WEB
    /\ \A k \in 0..(a - 1) : SubSeq(s, k + 1, k + Len(WEB)) # WEB
    /\ s[a + Len(WEB) + b + 1] = "/"
    /\ \A k \in 1..b : s[a + Len(WEB) + k] # "/"

\* C6: with raw = true and a snapshot URL <prefix>/web/<timestamp>/<original>,
\* get_snapshot_content fetches <prefix>/web/<timestamp>id_/<original>; with
\* raw false or absent, or with no "/web/" or no "/" after the timestamp, it
\* fetches the URL it was given.  (prefix ends at the first "/web/", timestamp
\* at the first "/" after it.)
C6_RawUrl ==
    (fn = "get_snapshot_content" /\ fn_out # NoOutput) =>
        LET url == fn_in["snapshot_url"]
            n == Len(url)
            raw == "raw" \in DOMAIN fn_in /\ fn_in["raw"]
            splits == {ab \in (0..n) \X (0..n) : SplitsAt(url, ab[1], ab[2])}
        IN /\ (~raw \/ splits = {}) => fn_out = url
           /\ raw => \A ab \in splits :
                 LET cut == ab[1] + Len(WEB) + ab[2]
                 IN fn_out = SubSeq(url, 1, cut) \o <<"i", "d", "_">> \o SubSeq(url, cut + 1, n)
           /\ (raw /\ url = ExampleUrl) =>
                 fn_out = WAYBACK_BASE_URL \o <<"/">> \o TS1 \o <<"i", "d", "_", "/">> \o ORIGINAL

C6_Witness ==
    /\ fn = "get_snapshot_content"
    /\ fn_in = ("snapshot_url" :> ExampleUrl @@ "raw" :> TRUE)
    /\ fn_out = WAYBACK_BASE_URL \o <<"/">> \o TS1 \o <<"i", "d", "_", "/">> \o ORIGINAL

\* C7: get_snapshot_content returns truncated = true with the first 50,000
\* characters of the body (content_length 50,000) when the body is longer than
\* 50,000 characters, and truncated = false with the whole body otherwise;
\* content_length never exceeds 50,000.
C7_Truncation ==
    (Done /\ name = "get_snapshot_content" /\ NormalResult) =>
        LET text == responses[1].body.value
            out == result.json
        IN /\ out["content_length"] <= 50000
           /\ out["content_length"] = out["content"].chars
           /\ out["content"].of = text.of
           /\ IF text.chars > 50000
              THEN out["truncated"] = TRUE /\ out["content"].chars = 50000
              ELSE out["truncated"] = FALSE /\ out["content"] = text

C7_Witness ==
    /\ Done
    /\ name = "get_snapshot_content"
    /\ NormalResult
    /\ responses[1].body.value.chars = 50001
    /\ result.json["truncated"] = TRUE
    /\ result.json["content_length"] = 50000

\* a search_snapshots call whose request got a 2xx answer that parses
SearchAnswered ==
    /\ Done
    /\ name = "search_snapshots"
    /\ Len(responses) = 1
    /\ responses[1].kind = "http"
    /\ responses[1].status_code \in 200..299
    /\ responses[1].body.json = "ok"

\* C8: on a successful answer that is an empty array or only the header row,
\* search_snapshots returns a normal result with total_found = 0 and no
\* snapshots; otherwise total_found is the number of rows after the header and
\* the snapshots are one record per data row, in upstream order.
C8_Rows ==
    SearchAnswered =>
        LET raw == responses[1].body.value
            out == result.json
        IN /\ NormalResult
           /\ IF Len(raw) <= 1
              THEN out["total_found"] = 0 /\ out["snapshots"] = <<>>
              ELSE /\ out["total_found"] = Len(raw) - 1
                   /\ Len(out["snapshots"]) = Len(raw) - 1
                   /\ \A i \in 1..(Len(raw) - 1) :
                         /\ Len(raw[i + 1]) >= 1 =>
                               out["snapshots"][i]["timestamp"] = raw[i + 1][1]
                         /\ Len(raw[i + 1]) >= 2 =>
                               out["snapshots"][i]["original_url"] = raw[i + 1][2]
                         /\ Len(raw[i + 1]) = 0 =>
                               out["snapshots"][i]["timestamp"] = <<>>

C8_Witness ==
    /\ SearchAnswered
    /\ Len(responses[1].body.value) = 3
    /\ responses[1].body.value[2] # responses[1].body.value[3]
    /\ result.json["total_found"] = 2

\* an availability call whose request got a 2xx answer that parses and whose
\* closest is missing or has a falsy available field
NoClosest ==
    /\ Done
    /\ name \in {"get_latest_snapshot", "get_snapshot_at_date"}
    /\ Len(responses) = 1
    /\ responses[1].kind = "http"
    /\ responses[1].status_code \in 200..299
    /\ responses[1].body.json = "ok"
    /\ LET data == responses[1].body.value IN
       \/ "archived_snapshots" \notin DOMAIN data
       \/ "closest" \notin DOMAIN data["archived_snapshots"]
       \/ "available" \notin DOMAIN data["archived_snapshots"]["closest"]
       \/ data["archived_snapshots"]["closest"]["available"] = FALSE

\* C9: on a successful availability answer whose closest is missing or has a
\* falsy available field, get_latest_snapshot and get_snapshot_at_date return
\* a normal result with available = false and no snapshot_url; a result
\* carries snapshot_url only when available = true.
C9_NotFound ==
    /\ NoClosest =>
          /\ NormalResult
          /\ result.json["available"] = FALSE
          /\ "snapshot_url" \notin DOMAIN result.json
    /\ (Done /\ name \in {"get_latest_snapshot", "get_snapshot_at_date"}
          /\ NormalResult /\ "snapshot_url" \in DOMAIN result.json) =>
          result.json["available"] = TRUE

C9_Witness ==
    /\ NoClosest
    /\ name = "get_latest_snapshot"
    /\ "archived_snapshots" \in DOMAIN responses[1].body.value
    /\ "closest" \in DOMAIN responses[1].body.value["archived_snapshots"]
    /\ {"available", "url", "timestamp"}
          \subseteq DOMAIN responses[1].body.value["archived_snapshots"]["closest"]
    /\ result.json["available"] = FALSE

\* the name is not a tool's, or a required key of the tool is missing
Invalid_request(n, args) ==
    \/ n \notin ToolNames
    \/ n \in {"get_latest_snapshot", "search_snapshots", "check_url_availability"}
         /\ "url" \notin DOMAIN args
    \/ n = "get_snapshot_at_date" /\ {"url", "timestamp"} \ DOMAIN args # {}
    \/ n = "get_snapshot_content" /\ "snapshot_url" \notin DOMAIN args

\* C10: a call whose name is not one of the five tool names, or whose
\* arguments lack a required key of the tool, ends at once with an
\* error-flagged result and without any outbound request.
C10_Validated ==
    (pc # "idle" /\ Invalid_request(name, arguments)) =>
        /\ Done
        /\ ErrorFlagged
        /\ requests = <<>>
        /\ responses = <<>>

C10_Witness ==
    /\ Done
    /\ name = "get_snapshot_at_date"
    /\ "url" \in DOMAIN arguments
    /\ "timestamp" \notin DOMAIN arguments
    /\ result = [isError |-> TRUE, text |-> <<"Error: ", "KeyError", "timestamp">>]
    /\ requests = <<>>

====
